---- MODULE Spec2Model ----
(***************************************************************************)
(* A model of umlizer's class-structure extraction pipeline:               *)
(*   load_classes_definition -> _search_modules -> _get_classes_from_module *)
(*   -> _get_class_structure -> create_diagram.                             *)
(*                                                                          *)
(* Python strings are sequences of one-character strings, so that split,   *)
(* join, startswith, endswith, relpath and substring tests are computed as *)
(* the code computes them.                                                  *)
(***************************************************************************)
EXTENDS Naturals, Integers, Sequences, FiniteSets, Bags, TLC

\* -------------------------------------------------------------------------
\* Strings
\* -------------------------------------------------------------------------

SEP == "/"

NoneValue == "None"

RECURSIVE SplitAcc(_, _, _)
SplitAcc(s, sep, cur) ==
    IF s = <<>> THEN <<cur>>
    ELSE IF Head(s) = sep
         THEN <<cur>> \o SplitAcc(Tail(s), sep, <<>>)
         ELSE SplitAcc(Tail(s), sep, Append(cur, Head(s)))

\* s.split(sep) for a one-character separator
Split(s, sep) == SplitAcc(s, sep, <<>>)

RECURSIVE Join(_, _)
\* sep.join(parts)
Join(parts, sep) ==
    IF parts = <<>> THEN <<>>
    ELSE IF Len(parts) = 1 THEN parts[1]
    ELSE parts[1] \o <<sep>> \o Join(Tail(parts), sep)

\* s.startswith(p)
StartsWith(s, p) ==
    /\ Len(p) <= Len(s)
    /\ SubSeq(s, 1, Len(p)) = p

\* s.endswith(p)
EndsWith(s, p) ==
    /\ Len(p) <= Len(s)
    /\ SubSeq(s, Len(s) - Len(p) + 1, Len(s)) = p

\* x in s (substring test)
Contains(s, x) ==
    \E i \in 1..(Len(s) + 1) :
        /\ i + Len(x) - 1 <= Len(s)
        /\ SubSeq(s, i, i + Len(x) - 1) = x

RECURSIVE Strip(_)
\* s.strip() (blanks only)
Strip(s) ==
    IF s = <<>> THEN s
    ELSE IF Head(s) = " " THEN Strip(Tail(s))
    ELSE IF s[Len(s)] = " " THEN Strip(SubSeq(s, 1, Len(s) - 1))
    ELSE s

\* s.replace(a, b) for one-character a, b
Replace(s, a, b) == [i \in 1..Len(s) |-> IF s[i] = a THEN b ELSE s[i]]

\* the elements of a sequence
Range(s) == {s[i] : i \in DOMAIN s}

RECURSIVE SelectSeqIdx(_, _, _)
\* [s[i] for i in order if keep[i]], a list comprehension with a filter,
\* from position i on
SelectSeqIdx(s, keep, i) ==
    IF i > Len(s) THEN <<>>
    ELSE (IF keep[i] THEN <<s[i]>> ELSE <<>>) \o SelectSeqIdx(s, keep, i + 1)

PY == <<".", "p", "y">>
PYCACHE == <<"_", "_", "p", "y", "c", "a", "c", "h", "e", "_", "_">>
OBJECT == <<"o", "b", "j", "e", "c", "t">>
BUILTINS == <<"b", "u", "i", "l", "t", "i", "n", "s">>

\* -------------------------------------------------------------------------
\* os.path
\* -------------------------------------------------------------------------

RECURSIVE LastIndexOf(_, _, _)
LastIndexOf(s, ch, i) ==
    IF i = 0 THEN 0
    ELSE IF s[i] = ch THEN i ELSE LastIndexOf(s, ch, i - 1)

\* os.path.splitext(p)[0]: the extension starts at the last dot of the last
\* path component, provided a character other than a dot precedes it there
splitext_root(p) ==
    LET sepIndex == LastIndexOf(p, SEP, Len(p))
        dotIndex == LastIndexOf(p, ".", Len(p))
    IN  IF /\ dotIndex > sepIndex
           /\ \E k \in (sepIndex + 1)..(dotIndex - 1) : p[k] # "."
        THEN SubSeq(p, 1, dotIndex - 1)
        ELSE p

RECURSIVE CommonPrefixLen(_, _)
CommonPrefixLen(a, b) ==
    IF a = <<>> \/ b = <<>> THEN 0
    ELSE IF Head(a) = Head(b) THEN 1 + CommonPrefixLen(Tail(a), Tail(b))
    ELSE 0

\* the non-empty components of an absolute path
PathParts(p) ==
    LET parts == Split(p, SEP)
    IN  SelectSeqIdx(parts, [i \in DOMAIN parts |-> parts[i] # <<>>], 1)

\* os.path.relpath(path, start) for absolute, normalised paths
relpath(path, start) ==
    LET start_list == PathParts(start)
        path_list == PathParts(path)
        i == CommonPrefixLen(start_list, path_list)
        ups == [k \in 1..(Len(start_list) - i) |-> <<".", ".">>]
        rel_list == ups \o SubSeq(path_list, i + 1, Len(path_list))
    IN  IF rel_list = <<>> THEN <<".">> ELSE Join(rel_list, SEP)

\* -------------------------------------------------------------------------
\* The file system and the interpreter the scan runs in
\* -------------------------------------------------------------------------

DIR_P == <<"/", "p">>
DIR_B == <<"/", "p", "/", "b">>
DIR_CACHE == DIR_P \o <<SEP>> \o PYCACHE
DIR_LIB == <<"/", "l">>
DIR_Z == <<"/", "z">>
FILE_N == <<"/", "p", "/", "n", ".", "p", "y">>
FILE_M == <<"/", "p", "/", "m", ".", "p", "y">>
FILE_BM == <<"/", "p", "/", "b", "/", "m", ".", "p", "y">>
FILE_CACHED == DIR_CACHE \o <<"/", "c", ".", "p", "y">>
FILE_X == <<"/", "l", "/", "x", ".", "p", "y">>
PATH_MISSING == <<"/", "q">>

FsDirs == {DIR_P, DIR_B, DIR_CACHE, DIR_LIB}
FsFiles == {FILE_N, FILE_M, FILE_BM, FILE_CACHED, FILE_X}

\* a directory test that accepts every existing path
isdir_AnyExisting(p) == p \in FsDirs \cup FsFiles

\* os.path.exists, os.path.isdir
exists(p) == p \in FsDirs \cup FsFiles
isdir(p) == p \in FsDirs

\* glob.glob(target + '/**/*', recursive=True): every entry below target, in
\* the enumeration order of the file system
GlobOrder == <<DIR_B, FILE_BM, DIR_CACHE, FILE_CACHED, FILE_M, FILE_N>>
glob(target) ==
    SelectSeqIdx(GlobOrder,
                 [i \in DOMAIN GlobOrder |->
                     StartsWith(GlobOrder[i], target \o <<SEP>>)], 1)

\* A module without __file__ (getattr(module, '__file__', None) is None)
NoFile == <<"None">>

\* sys.path and sys.modules when the tool starts
InitialSysPath == <<DIR_LIB>>
InitialSysModules == (BUILTINS :> NoFile)

\* -------------------------------------------------------------------------
\* The scanned program: class objects and what executing each file yields
\* -------------------------------------------------------------------------

\* names of types
INT == <<"i", "n", "t">>
STR == <<"s", "t", "r">>
FLOAT == <<"f", "l", "o", "a", "t">>
ANY == <<"A", "n", "y">>
UNKNOWN == <<"U", "N", "K", "N", "O", "W", "N">>
DUNDER == <<"_", "_">>

\* A class object: __name__, __module__, __qualname__ and __bases__ (ids).
\*   object  the builtin root type
\*   A       class A defined in /p/n.py
\*   D       class D defined in /p/n.py after A, in one version of the file
\*   E       class E defined in /l/x.py, outside the scanned root
\*   K1      class K(A, E) defined in /p/m.py
\*   K2      class K defined in /p/b/m.py
\*   K3      class K(K) defined in /p/b/m.py after K2, rebinding the name K
Classes ==
    [c \in {"object", "A", "D", "E", "K1", "K2", "K3", "int", "str"} |->
        CASE c = "object" ->
               [name |-> OBJECT, module |-> BUILTINS, qualname |-> OBJECT,
                bases |-> <<>>]
          [] c = "int" ->
               [name |-> INT, module |-> BUILTINS, qualname |-> INT,
                bases |-> <<"object">>]
          [] c = "str" ->
               [name |-> STR, module |-> BUILTINS, qualname |-> STR,
                bases |-> <<"object">>]
          [] c = "A" ->
               [name |-> <<"A">>, module |-> <<"n">>, qualname |-> <<"A">>,
                bases |-> <<"object">>]
          [] c = "D" ->
               [name |-> <<"D">>, module |-> <<"n">>, qualname |-> <<"D">>,
                bases |-> <<"object">>]
          [] c = "E" ->
               [name |-> <<"E">>, module |-> <<"x">>, qualname |-> <<"E">>,
                bases |-> <<"object">>]
          [] c = "K1" ->
               [name |-> <<"K">>, module |-> <<"m">>, qualname |-> <<"K">>,
                bases |-> <<"A", "E">>]
          [] c = "K2" ->
               [name |-> <<"K">>, module |-> <<"m">>, qualname |-> <<"K">>,
                bases |-> <<"object">>]
          [] c = "K3" ->
               [name |-> <<"K">>, module |-> <<"m">>, qualname |-> <<"K">>,
                bases |-> <<"K2">>]]

ClassIds == DOMAIN Classes

\* a module attribute that is not a class (a function)
FUNC == "func"

\* inspect.isclass
isclass(obj) == obj \in ClassIds

\* A module without __all__ (hasattr(module, '__all__') is false): a value
\* no list of names equals
NoAll == <<<<"no __all__">>>>

\* What executing a file to the end leaves behind: ns, the module's
\* attributes as dir(module) lists them (sorted by name); all, the module's
\* __all__ (NoAll when it has none); imports, the modules its import
\* statements bring into sys.modules when they are not there yet.
NS_N == <<[name |-> <<"A">>, obj |-> "A"]>>
NS_N_D == <<[name |-> <<"A">>, obj |-> "A"], [name |-> <<"D">>, obj |-> "D"]>>
NS_M == <<[name |-> <<"A">>, obj |-> "A"], [name |-> <<"E">>, obj |-> "E"],
          [name |-> <<"K">>, obj |-> "K1"], [name |-> <<"f">>, obj |-> FUNC]>>
IMPORTS_M == (<<"n">> :> FILE_N) @@ (<<"x">> :> FILE_X)
NoImports == [k \in {} |-> NoFile]

ModuleBodies(file) ==
    CASE file = FILE_N ->
           {[ns |-> NS_N, all |-> NoAll, imports |-> NoImports],
            [ns |-> NS_N, all |-> <<<<"A">>>>, imports |-> NoImports],
            [ns |-> NS_N, all |-> <<<<"Z">>>>, imports |-> NoImports],
            [ns |-> NS_N_D, all |-> NoAll, imports |-> NoImports]}
      [] file = FILE_M ->
           {[ns |-> NS_M, all |-> NoAll, imports |-> IMPORTS_M],
            [ns |-> NS_M, all |-> <<<<"A">>, <<"f">>>>, imports |-> IMPORTS_M],
            [ns |-> NS_M, all |-> <<<<"K">>, <<"K">>>>, imports |-> IMPORTS_M]}
      [] file = FILE_BM ->
           {[ns |-> <<[name |-> <<"K">>, obj |-> "K2"]>>, all |-> NoAll,
             imports |-> NoImports],
            [ns |-> <<[name |-> <<"K">>, obj |-> "K3"]>>, all |-> NoAll,
             imports |-> NoImports]}
      [] OTHER -> {[ns |-> <<>>, all |-> NoAll, imports |-> NoImports]}

\* Python's exception classes, as far as the except clauses tell them apart
ExcTypes == {"Exception", "KeyboardInterrupt", "SystemExit"}

\* issubclass(exc, Exception): KeyboardInterrupt and SystemExit derive from
\* BaseException only
IsException(exc) == exc = "Exception"

\* How one load of a file goes:
\*   exec   what spec.loader.exec_module raises (NoneValue: runs to the end)
\*   late   what arrives while the classes are collected (NoneValue or an
\*          asynchronous KeyboardInterrupt)
\*   body   the namespace the module body leaves
\*   touch  whether the module body inserts a directory into sys.path
Behaviours(file) ==
    LET partial == [ns |-> <<>>, all |-> NoAll, imports |-> NoImports]
    IN  IF file \notin FsFiles
        THEN {[exec |-> "Exception", late |-> NoneValue, body |-> partial,
               touch |-> FALSE]}
        ELSE {[exec |-> e, late |-> NoneValue, body |-> partial, touch |-> t] :
                e \in ExcTypes, t \in BOOLEAN}
             \cup
             {[exec |-> NoneValue, late |-> l, body |-> b, touch |-> t] :
                l \in {NoneValue, "KeyboardInterrupt"},
                b \in ModuleBodies(file),
                t \in BOOLEAN}

\* -------------------------------------------------------------------------
\* utils.raise_error
\* -------------------------------------------------------------------------

\* raise_error that only echoes the message and returns
raise_error_NoRaise(message, exit_code) ==
    [exc |-> NoneValue, code |-> exit_code, message |-> message]

\* raise_error(message, exit_code): echoes the message and raises
\* typer.Exit(exit_code); the value is the exception that leaves the call
raise_error(message, exit_code) ==
    [exc |-> "typer.Exit", code |-> exit_code, message |-> message]

\* -------------------------------------------------------------------------
\* inspector._search_modules
\* -------------------------------------------------------------------------

_search_modules(target, exclude_pattern) ==
    LET found == glob(target)
        skip(f) == \E i \in DOMAIN exclude_pattern :
                       Contains(f, exclude_pattern[i])
    IN  SelectSeqIdx(found,
                     [i \in DOMAIN found |->
                         ~skip(found[i]) /\ EndsWith(found[i], PY)], 1)

\* the exclusion list without the appended '__pycache__'
ExcludePattern_NoAppend(exclude) ==
    LET parts == Split(exclude, ",")
    IN  IF exclude # <<>>
        THEN [i \in DOMAIN parts |-> Strip(parts[i])]
        ELSE <<>>

\* [exclude.strip() for exclude in exclude.split(',')] if exclude else [],
\* followed by append('__pycache__')
ExcludePattern(exclude) ==
    LET parts == Split(exclude, ",")
        given == IF exclude # <<>>
                 THEN [i \in DOMAIN parts |-> Strip(parts[i])]
                 ELSE <<>>
    IN  Append(given, PYCACHE)

\* -------------------------------------------------------------------------
\* inspector._extract_module_name, inspector._get_classes_from_module
\* -------------------------------------------------------------------------

\* <<module_path, module_name>>
_extract_module_name(module_path) ==
    LET module_split == Split(module_path, SEP)
        module_filename == module_split[Len(module_split)]
        dir == Join(SubSeq(module_split, 1, Len(module_split) - 1), SEP)
    IN  <<dir,
          IF EndsWith(module_filename, PY)
          THEN SubSeq(module_filename, 1, Len(module_filename) - 3)
          ELSE module_filename>>

\* getattr(module, name): the object bound to name, NoneValue standing for
\* the AttributeError of a missing attribute
GetAttr(ns, name) ==
    IF \E i \in DOMAIN ns : ns[i].name = name
    THEN ns[CHOOSE i \in DOMAIN ns : ns[i].name = name].obj
    ELSE NoneValue

\* the comprehension over module.__all__ (an empty list without __all__)
AllClassesExported(body) ==
    IF body.all = NoAll THEN <<>>
    ELSE SelectSeqIdx([i \in DOMAIN body.all |-> GetAttr(body.ns, body.all[i])],
                      [i \in DOMAIN body.all |->
                          isclass(GetAttr(body.ns, body.all[i]))], 1)

\* whether that comprehension raises AttributeError
ExportedRaises(body) ==
    /\ body.all # NoAll
    /\ \E i \in DOMAIN body.all : GetAttr(body.ns, body.all[i]) = NoneValue

\* the comprehension over dir(module) without the __module__ test
AllClasses_NoModuleFilter(body, module_name) ==
    SelectSeqIdx([i \in DOMAIN body.ns |-> body.ns[i].obj],
                 [i \in DOMAIN body.ns |-> isclass(body.ns[i].obj)], 1)

\* the comprehension over dir(module): the classes whose __module__ is the
\* loaded module's __name__
AllClasses(body, module_name) ==
    SelectSeqIdx([i \in DOMAIN body.ns |-> body.ns[i].obj],
                 [i \in DOMAIN body.ns |->
                     /\ isclass(body.ns[i].obj)
                     /\ Classes[body.ns[i].obj].module = module_name], 1)

\* the list the function returns on success
CollectedClasses(body, module_name) ==
    AllClasses(body, module_name) \o AllClassesExported(body)

\* the except clauses with KeyboardInterrupt caught like any other failure
ExceptClause_InterruptSwallowed(exc) ==
    IF exc = "KeyboardInterrupt" \/ IsException(exc) THEN "Exception"
    ELSE NoneValue

\* The except clause of _get_classes_from_module that handles exc:
\* "KeyboardInterrupt", "Exception", or NoneValue when none does and the
\* exception leaves the function
ExceptClause(exc) ==
    IF exc = "KeyboardInterrupt" THEN "KeyboardInterrupt"
    ELSE IF IsException(exc) THEN "Exception"
    ELSE NoneValue

\* sys.modules after exec_module: the module itself, registered before its
\* body runs, and the modules its imports load
ModulesAfterExec(mods, module_name, file, beh) ==
    LET reg == (module_name :> file) @@ mods
    IN  IF beh.exec = NoneValue THEN reg @@ beh.body.imports ELSE reg

\* the try statement whose handler for Exception leaves sys.path as it is
Handle_NoRestore(exc, cur, original_path, restores, mods) ==
    [exit |-> IF ExceptClause(exc) = "Exception" THEN "return"
              ELSE IF ExceptClause(exc) = "KeyboardInterrupt"
              THEN "typer.Exit" ELSE exc,
     code |-> IF ExceptClause(exc) = "KeyboardInterrupt" THEN 1 ELSE 0,
     value |-> <<>>, sys_path |-> cur, sys_modules |-> mods,
     restores |-> restores]

\* The try statement of _get_classes_from_module left by exception exc,
\* raised when sys.path holds cur and has been restored `restores` times.
Handle(exc, cur, original_path, restores, mods) ==
    LET clause == ExceptClause(exc)
        err == raise_error("KeyboardInterrupt", 1)
    IN  CASE clause = "KeyboardInterrupt" /\ err.exc # NoneValue ->
               [exit |-> err.exc, code |-> err.code, value |-> <<>>,
                sys_path |-> cur, sys_modules |-> mods, restores |-> restores]
          [] clause = "KeyboardInterrupt" /\ err.exc = NoneValue ->
               \* control reaches the return after the try statement, whose
               \* operands were never bound
               [exit |-> "UnboundLocalError", code |-> 0, value |-> <<>>,
                sys_path |-> cur, sys_modules |-> mods, restores |-> restores]
          [] clause = "Exception" ->
               [exit |-> "return", code |-> 0, value |-> <<>>,
                sys_path |-> original_path, sys_modules |-> mods,
                restores |-> restores + 1]
          [] OTHER ->
               [exit |-> exc, code |-> 0, value |-> <<>>,
                sys_path |-> cur, sys_modules |-> mods, restores |-> restores]

\* One call _get_classes_from_module(module_file_path) made when sys.path
\* is path and sys.modules is mods, the load going as beh says. The value
\* tells how the call ends (exit: "return" or the exception that leaves
\* it), what it returns, and sys.path and sys.modules as it leaves them;
\* restores counts the executions of `sys.path = original_path`.
_get_classes_from_module(module_file_path, path, mods, beh) ==
    LET mp == _extract_module_name(module_file_path)
        module_path == mp[1]
        module_name == mp[2]
        original_path == path
        inserted == <<module_path>> \o path
        in_exec == IF beh.touch THEN <<DIR_Z>> \o inserted ELSE inserted
        mods1 == ModulesAfterExec(mods, module_name, module_file_path, beh)
    IN  CASE beh.exec # NoneValue ->
               Handle(beh.exec, in_exec, original_path, 0, mods1)
          [] beh.exec = NoneValue /\ beh.late # NoneValue ->
               Handle(beh.late, original_path, original_path, 1, mods1)
          [] beh.exec = NoneValue /\ beh.late = NoneValue
               /\ ExportedRaises(beh.body) ->
               Handle("Exception", original_path, original_path, 1, mods1)
          [] OTHER ->
               [exit |-> "return", code |-> 0,
                value |-> CollectedClasses(beh.body, module_name),
                sys_path |-> original_path, sys_modules |-> mods1,
                restores |-> 1]

\* -------------------------------------------------------------------------
\* inspector: names, bases, _get_class_structure
\* -------------------------------------------------------------------------

\* _get_fullname(entity): module + '.' + qualname
_get_fullname(cls) ==
    IF Classes[cls].module # <<>>
    THEN Classes[cls].module \o <<".">> \o Classes[cls].qualname
    ELSE Classes[cls].qualname

\* importlib.import_module(cls.__module__) finds the module in sys.modules
Importable(cls, mods) == Classes[cls].module \in DOMAIN mods

\* get_full_class_path(cls, root_path), sys.modules being mods
get_full_class_path(cls, root_path, mods) ==
    LET module_file == mods[Classes[cls].module]
        relative_path == relpath(module_file, root_path)
        package_path == Replace(splitext_root(relative_path), SEP, ".")
    IN  IF module_file = NoFile THEN _get_fullname(cls)
        ELSE IF ~StartsWith(module_file, root_path) THEN _get_fullname(cls)
        ELSE package_path \o <<".">> \o Classes[cls].qualname

\* -------------------------------------------------------------------------
\* The reflector: fields and methods of a class
\*
\* A Python dict is the sequence of its items [key, value] in insertion
\* order. A class under reflection is a record:
\*   dataclass    dataclasses.is_dataclass(klass)
\*   dict         klass.__dict__, each entry with its key, whether its value
\*                is a routine, the parameter names of the routine and its
\*                __annotations__ (a dict from parameter name or 'return'
\*                to a type)
\*   annotations  klass.__annotations__ (a dict from key to a type)
\*   init         the constructor: kind "absent", "function" or "other" (an
\*                __init__ that is not a Python function), whether
\*                inspect.getsourcelines finds its source, and the
\*                statements of its body in the order ast.walk visits them
\* A statement is an ast.AnnAssign or ast.Assign node with a target
\* <object>.<attr>, an annotation node and a value node.
\* -------------------------------------------------------------------------

DictKeys(d) == {d[i].key : i \in DOMAIN d}

\* d.get(k, default)
DictGet(d, k, default) ==
    IF k \in DictKeys(d)
    THEN d[CHOOSE i \in DOMAIN d : d[i].key = k].value
    ELSE default

\* d[k] = v
DictSet(d, k, v) ==
    IF k \in DictKeys(d)
    THEN [i \in DOMAIN d |-> IF d[i].key = k THEN [key |-> k, value |-> v]
                                              ELSE d[i]]
    ELSE Append(d, [key |-> k, value |-> v])

RECURSIVE DictUpdate(_, _)
\* d.update(e)
DictUpdate(d, e) ==
    IF e = <<>> THEN d
    ELSE DictUpdate(DictSet(d, Head(e).key, Head(e).value), Tail(e))

\* {k: _get_fullname(v) for k, v in annotations.items()}
FullnameOfEach(annotations) ==
    [i \in DOMAIN annotations |->
        [key |-> annotations[i].key,
         value |-> _get_fullname(annotations[i].value)]]

\* _get_method_annotation(method)
_get_method_annotation(method) == FullnameOfEach(method.annotations)

\* _get_annotations(klass)
_get_annotations(klass) == FullnameOfEach(klass.annotations)

RECURSIVE MethodsFrom(_, _)
\* the loop of _get_methods over the entries of entity.__dict__
MethodsFrom(entries, methods) ==
    IF entries = <<>> THEN methods
    ELSE LET e == Head(entries)
         IN  IF StartsWith(e.key, DUNDER) \/ ~e.routine
             THEN MethodsFrom(Tail(entries), methods)
             ELSE MethodsFrom(Tail(entries),
                              DictSet(methods, e.key,
                                      _get_method_annotation(e)))

\* _get_methods(entity)
_get_methods(entity) == MethodsFrom(entity.dict, <<>>)

\* the type _get_init_attributes records for an annotated self assignment,
\* or the exception the attribute access raises
AttrType(node) ==
    IF node.value.node = "Name"
    THEN IF node.annotation.node = "Name"
         THEN [raised |-> NoneValue, type |-> node.annotation.id]
         ELSE [raised |-> "AttributeError", type |-> ANY]
    ELSE IF node.value.node = "Call" /\ node.value.func = "Name"
    THEN [raised |-> "AttributeError", type |-> ANY]
    ELSE IF node.value.node = "Constant"
    THEN [raised |-> NoneValue, type |-> node.value.type]
    ELSE [raised |-> NoneValue, type |-> ANY]

RECURSIVE InitAttributesFrom(_, _)
\* the loop of _get_init_attributes over the nodes of the constructor
InitAttributesFrom(nodes, attributes) ==
    IF nodes = <<>> THEN [raised |-> NoneValue, value |-> attributes]
    ELSE LET node == Head(nodes)
         IN  IF node.node = "AnnAssign" /\ node.target.object = "self"
             THEN LET t == AttrType(node)
                  IN  IF t.raised # NoneValue
                      THEN [raised |-> t.raised, value |-> <<>>]
                      ELSE InitAttributesFrom(
                               Tail(nodes),
                               DictSet(attributes, node.target.attr, t.type))
             ELSE InitAttributesFrom(Tail(nodes), attributes)

\* _get_init_attributes(klass): the dict returned, or the exception raised
_get_init_attributes(klass) ==
    IF klass.init.kind # "function"
    THEN [raised |-> NoneValue, value |-> <<>>]
    ELSE IF ~klass.init.source
    THEN [raised |-> "OSError", value |-> <<>>]
    ELSE InitAttributesFrom(klass.init.body, <<>>)

RECURSIVE BodyFieldsFrom(_, _, _, _)
\* the loop of _get_classic_class_structure over klass.__dict__.keys()
BodyFieldsFrom(entries, _methods, klass_anno, fields) ==
    IF entries = <<>> THEN fields
    ELSE LET k == Head(entries).key
         IN  IF StartsWith(k, DUNDER) \/ k \in DictKeys(_methods)
             THEN BodyFieldsFrom(Tail(entries), _methods, klass_anno, fields)
             ELSE BodyFieldsFrom(Tail(entries), _methods, klass_anno,
                                 DictSet(fields, k,
                                         DictGet(klass_anno, k, UNKNOWN)))

\* the fields the class-body pass of _get_classic_class_structure finds
BodyFields(klass) ==
    BodyFieldsFrom(klass.dict, _get_methods(klass), _get_annotations(klass),
                   <<>>)

\* class_graph._get_classic_class_structure(klass), which reads the
\* constructor only when the class-body pass found nothing
_get_classic_class_structure_Fallback(klass) ==
    LET attrs == IF BodyFields(klass) = <<>>
                 THEN _get_init_attributes(klass)
                 ELSE [raised |-> NoneValue, value |-> <<>>]
    IN  [raised |-> attrs.raised,
         fields |-> IF attrs.raised # NoneValue THEN <<>>
                    ELSE DictUpdate(BodyFields(klass), attrs.value),
         methods |-> _get_methods(klass)]

\* _get_classic_class_structure(klass)
_get_classic_class_structure(klass) ==
    LET attrs == _get_init_attributes(klass)
    IN  [raised |-> attrs.raised,
         fields |-> IF attrs.raised # NoneValue THEN <<>>
                    ELSE DictUpdate(BodyFields(klass), attrs.value),
         methods |-> _get_methods(klass)]

\* _get_dataclass_structure(klass): a field per annotated key, with the
\* __name__ of its type
_get_dataclass_structure(klass) ==
    [raised |-> NoneValue,
     fields |-> [i \in DOMAIN klass.annotations |->
                   [key |-> klass.annotations[i].key,
                    value |-> Classes[klass.annotations[i].value].name]],
     methods |-> _get_methods(klass)]

\* _get_class_structure(klass, root_path): the record's fields and methods
StructureOf(klass) ==
    IF klass.dataclass THEN _get_dataclass_structure(klass)
    ELSE _get_classic_class_structure(klass)

RETURN == <<"r", "e", "t", "u", "r", "n">>

\* annotation nodes: int, float, a subscript such as list[int], none
ANN_INT == [node |-> "Name", id |-> INT]
ANN_FLOAT == [node |-> "Name", id |-> FLOAT]
ANN_SUBSCRIPT == [node |-> "Subscript", id |-> <<>>]
ANN_NONE == [node |-> "None", id |-> <<>>]

\* value nodes: a name (v), a call of a name (dict()), the literals 5 and
\* "a", a list display ([1]), no value
V_NAME == [node |-> "Name", func |-> "", type |-> <<>>]
V_CALL == [node |-> "Call", func |-> "Name", type |-> <<>>]
V_INT == [node |-> "Constant", func |-> "", type |-> INT]
V_STR == [node |-> "Constant", func |-> "", type |-> STR]
V_LIST == [node |-> "List", func |-> "", type |-> <<>>]
V_NONE == [node |-> "None", func |-> "", type |-> <<>>]

Values == {V_NAME, V_CALL, V_INT, V_STR, V_LIST, V_NONE}

\* self.x: int = 5, self.x: float = 5, self.y = "a", other.x: int = 5
SELF_X_INT_5 ==
    [node |-> "AnnAssign", target |-> [object |-> "self", attr |-> <<"x">>],
     annotation |-> ANN_INT, value |-> V_INT]
SELF_X_FLOAT_5 ==
    [node |-> "AnnAssign", target |-> [object |-> "self", attr |-> <<"x">>],
     annotation |-> ANN_FLOAT, value |-> V_INT]
SELF_Y_A ==
    [node |-> "Assign", target |-> [object |-> "self", attr |-> <<"y">>],
     annotation |-> ANN_NONE, value |-> V_STR]
OTHER_X_INT_5 ==
    [node |-> "AnnAssign", target |-> [object |-> "other", attr |-> <<"x">>],
     annotation |-> ANN_INT, value |-> V_INT]

\* no __init__ in the class body, an __init__ that is not a Python function,
\* a constructor whose source cannot be retrieved
INIT_ABSENT == [kind |-> "absent", source |-> FALSE, body |-> <<>>]
INIT_OTHER == [kind |-> "other", source |-> FALSE, body |-> <<>>]
INIT_NO_SOURCE == [kind |-> "function", source |-> FALSE, body |-> <<>>]

\* self.x: int = int()
SELF_X_INT_CALL ==
    [node |-> "AnnAssign", target |-> [object |-> "self", attr |-> <<"x">>],
     annotation |-> ANN_INT, value |-> V_CALL]

\* The body and the constructor of the classes of the corpus: D has the
\* constructor `self.x: int = int()`, the others have an empty body
ClassCode(cls) ==
    [dataclass |-> FALSE, dict |-> <<>>, annotations |-> <<>>,
     init |-> IF cls = "D"
              THEN [kind |-> "function", source |-> TRUE,
                    body |-> <<SELF_X_INT_CALL>>]
              ELSE INIT_ABSENT]

\* _get_base_classes(klass): the direct bases not named 'object'
_get_base_classes(klass) ==
    LET bases == Classes[klass].bases
    IN  SelectSeqIdx(bases,
                     [i \in DOMAIN bases |-> Classes[bases[i]].name # OBJECT], 1)

\* _get_class_structure(klass, root_path): the record of a class whose
\* reflection does not raise
_get_class_structure(klass, root_path, mods) ==
    LET bs == _get_base_classes(klass)
        class_struct == StructureOf(ClassCode(klass))
    IN  [name |-> get_full_class_path(klass, root_path, mods),
         module |-> Classes[klass].module,
         bases |-> [i \in DOMAIN bs |->
                       get_full_class_path(bs[i], root_path, mods)],
         fields |-> class_struct.fields,
         methods |-> class_struct.methods]

\* reflection in which no exception ever leaves _get_class_structure
ReflectRaises_Never(klass, mods) == FALSE

\* whether reflecting klass raises: a constructor the extractor fails on,
\* a class or base whose module cannot be imported
ReflectRaises(klass, mods) ==
    \/ StructureOf(ClassCode(klass)).raised # NoneValue
    \/ ~Importable(klass, mods)
    \/ \E i \in DOMAIN Classes[klass].bases :
           /\ Classes[Classes[klass].bases[i]].name # OBJECT
           /\ ~Importable(Classes[klass].bases[i], mods)

\* -------------------------------------------------------------------------
\* class_graph.create_diagram
\* -------------------------------------------------------------------------

\* the list `edges` built by the loops: (base, klass.name) per record, per base
RECURSIVE EdgeList(_)
EdgeList(classes_list) ==
    IF classes_list = <<>> THEN <<>>
    ELSE LET klass == Head(classes_list)
         IN  [i \in DOMAIN klass.bases |-> <<klass.bases[i], klass.name>>]
             \o EdgeList(Tail(classes_list))

\* the bag of the elements of a sequence, with their multiplicities
SeqToBag(seq) ==
    [e \in Range(seq) |-> Cardinality({i \in DOMAIN seq : seq[i] = e})]

\* g.edges(edges): the list handed over without set()
EdgesHanded_NoSet(edges) == SeqToBag(edges)

\* g.edges(set(edges)): the edge statements the graph receives, as a bag
\* (one statement per element of the iterable, in no particular order)
EdgesHanded(edges) == SetToBag(Range(edges))

\* a node for every record and for every base of every record
NodeKeys_WithBases(classes_list) ==
    [i \in DOMAIN classes_list |-> classes_list[i].name]
    \o [i \in DOMAIN EdgeList(classes_list) |-> EdgeList(classes_list)[i][1]]

\* the keys of the g.node calls, in call order
NodeKeys(classes_list) == [i \in DOMAIN classes_list |-> classes_list[i].name]

create_diagram(classes_list) ==
    [built |-> TRUE,
     nodes |-> NodeKeys(classes_list),
     edges |-> EdgesHanded(EdgeList(classes_list))]

\* no graph built yet
NoGraph == [built |-> FALSE, nodes |-> <<>>, edges |-> EmptyBag]

\* -------------------------------------------------------------------------
\* inspector.dict_to_classdef: records reloaded from saved metadata
\* -------------------------------------------------------------------------

MaxRecords == 2
MaxBases == 2

SeqsUpTo(S, n) == UNION {[1..k -> S] : k \in 0..n}

SavedNames == {<<"a">>, <<"b">>}

\* the lists of class metadata a saved file can hold, within the bounds
SavedClassLists ==
    SeqsUpTo([name : SavedNames, module : {<<>>},
              bases : SeqsUpTo(SavedNames, MaxBases)], MaxRecords)

\* ClassDef(**klass_metadata) for each entry, fields and methods taking
\* their defaults
dict_to_classdef(classes_list) ==
    [i \in DOMAIN classes_list |->
        [name |-> classes_list[i].name, module |-> classes_list[i].module,
         bases |-> classes_list[i].bases, fields |-> <<>>, methods |-> <<>>]]

\* -------------------------------------------------------------------------
\* utils.blob_to_regex, and re.match on the pattern it returns
\* -------------------------------------------------------------------------

BACKSLASH == "\\"
NEWLINE == "\n"

\* the characters re.escape prefixes with a backslash, among those used here
ReSpecial == {".", "*", "?", BACKSLASH, NEWLINE, " ", "-", "^", "$", "[", "]"}

RECURSIVE re_escape(_)
\* re.escape(s)
re_escape(s) ==
    IF s = <<>> THEN <<>>
    ELSE (IF Head(s) \in ReSpecial THEN <<BACKSLASH, Head(s)>> ELSE <<Head(s)>>)
         \o re_escape(Tail(s))

RECURSIVE str_replace(_, _, _)
\* s.replace(old, new): the occurrences of old, left to right, not
\* overlapping
str_replace(s, old, new) ==
    IF s = <<>> THEN <<>>
    ELSE IF StartsWith(s, old)
         THEN new \o str_replace(SubSeq(s, Len(old) + 1, Len(s)), old, new)
         ELSE <<Head(s)>> \o str_replace(Tail(s), old, new)

\* blob_to_regex without the anchors
blob_to_regex_Unanchored(blob) ==
    str_replace(str_replace(re_escape(blob), <<BACKSLASH, "*">>, <<".", "*">>),
                <<BACKSLASH, "?">>, <<".">>)

\* blob_to_regex(blob)
blob_to_regex(blob) ==
    <<"^">>
    \o str_replace(str_replace(re_escape(blob),
                               <<BACKSLASH, "*">>, <<".", "*">>),
                   <<BACKSLASH, "?">>, <<".">>)
    \o <<"$">>

\* The first atom of a pattern: its length in the pattern and whether it
\* stands for any character but a newline (dot) or for the character ch
ReAtom(r) ==
    IF Head(r) = BACKSLASH /\ Len(r) >= 2
    THEN [len |-> 2, dot |-> FALSE, ch |-> r[2]]
    ELSE [len |-> 1, dot |-> Head(r) = ".", ch |-> Head(r)]

\* whether an atom matches the character c
ReAtomMatches(a, c) == IF a.dot THEN c # NEWLINE ELSE c = a.ch

RECURSIVE ReMatchFrom(_, _, _)
\* Whether pattern r matches a prefix of t; at_start tells that t is the
\* whole subject. '^' matches at the start of the subject, '$' at its end
\* and before a newline that ends it; '*' and '?' quantify the atom before.
ReMatchFrom(r, t, at_start) ==
    IF r = <<>> THEN TRUE
    ELSE IF Head(r) = "^" THEN at_start /\ ReMatchFrom(Tail(r), t, at_start)
    ELSE IF Head(r) = "$"
         THEN (t = <<>> \/ t = <<NEWLINE>>) /\ ReMatchFrom(Tail(r), t, at_start)
    ELSE LET a == ReAtom(r)
             rest == SubSeq(r, a.len + 1, Len(r))
             quant == IF rest # <<>> /\ Head(rest) \in {"*", "?"}
                      THEN Head(rest) ELSE ""
             after == IF quant = "" THEN rest ELSE Tail(rest)
             one == t # <<>> /\ ReAtomMatches(a, Head(t))
         IN  CASE quant = "*" ->
                    \/ ReMatchFrom(after, t, at_start)
                    \/ one /\ ReMatchFrom(r, Tail(t), FALSE)
               [] quant = "?" ->
                    \/ ReMatchFrom(after, t, at_start)
                    \/ one /\ ReMatchFrom(after, Tail(t), FALSE)
               [] OTHER -> one /\ ReMatchFrom(after, Tail(t), FALSE)

\* re.match(pattern, text) is not None
re_match(pattern, text) == ReMatchFrom(pattern, text, TRUE)

\* -------------------------------------------------------------------------
\* The state machine
\* -------------------------------------------------------------------------

VARIABLES
    source,        \* the path given to load_classes_definition
    exclude,       \* the exclusion string given to it
    pc,            \* "init", "loop", "done", "loaded", "exit", "raised"
    exit_code,     \* the status of typer.Exit once raised, 0 before that
    sys_path,      \* sys.path
    sys_modules,   \* sys.modules: module name -> its __file__
    module_files,  \* the list the scan loop iterates over
    idx,           \* position of the scan loop in module_files
    classes_list,  \* the class objects collected so far
    records,       \* the ClassDef list returned (empty before that)
    calls,         \* the calls of _get_classes_from_module made so far
    g,             \* the graph create_diagram built (NoGraph before that)
    fn,            \* the function called on its own ("none" in a pipeline run)
    args,          \* the arguments of that call
    result         \* what the call gave (NoResult before it is made)

vars == <<source, exclude, pc, exit_code, sys_path, sys_modules, module_files,
          idx, classes_list, records, calls, g, fn, args, result>>

pipelineVars == <<source, exclude, pc, exit_code, sys_path, sys_modules,
                  module_files, idx, classes_list, records, calls, g>>
callVars == <<fn, args, result>>

NoResult == [done |-> FALSE]

Sources == {DIR_P, FILE_M, FILE_N, PATH_MISSING}
\* the exclusion string '*/b/*'
EXCLUDE_GLOB_B == <<"*", "/", "b", "/", "*">>
Excludes == {<<>>, <<"b", "/">>, <<"n", ".", ",", " ", "x">>, EXCLUDE_GLOB_B}

\* the state before load_classes_definition has done anything
PipelineIdle ==
    /\ pc = "init"
    /\ exit_code = 0
    /\ sys_path = InitialSysPath
    /\ sys_modules = InitialSysModules
    /\ module_files = <<>>
    /\ idx = 1
    /\ classes_list = <<>>
    /\ records = <<>>
    /\ calls = <<>>
    /\ g = NoGraph

Init ==
    /\ source \in Sources
    /\ exclude \in Excludes
    /\ PipelineIdle
    /\ fn = "none"
    /\ args = <<>>
    /\ result = NoResult

\* load_classes_definition up to its scan loop: the existence test, the
\* insertion of a directory root into sys.path and the enumeration of files
Start ==
    /\ pc = "init"
    /\ LET err == IF exists(source)
                  THEN [exc |-> NoneValue, code |-> 0]
                  ELSE raise_error("Path doesn't exist.", 1)
       IN  IF err.exc # NoneValue
           THEN /\ pc' = "exit"
                /\ exit_code' = err.code
                /\ UNCHANGED <<sys_path, module_files>>
           ELSE /\ pc' = "loop"
                /\ exit_code' = exit_code
                /\ IF isdir(source)
                   THEN /\ sys_path' = <<source>> \o sys_path
                        /\ module_files' =
                             _search_modules(source, ExcludePattern(exclude))
                   ELSE /\ sys_path' = sys_path
                        /\ module_files' = <<source>>
    /\ UNCHANGED <<source, exclude, sys_modules, idx, classes_list, records,
                   calls, g>>
    /\ UNCHANGED callVars

\* one iteration of the scan loop: _get_classes_from_module(file_path) and
\* classes_list.extend(...)
LoadModule ==
    /\ pc = "loop"
    /\ idx <= Len(module_files)
    /\ \E beh \in Behaviours(module_files[idx]) :
         LET file_path == module_files[idx]
             r == _get_classes_from_module(file_path, sys_path, sys_modules,
                                           beh)
         IN  /\ sys_path' = r.sys_path
             /\ sys_modules' = r.sys_modules
             /\ calls' = Append(calls,
                                [file |-> file_path, beh |-> beh,
                                 path_before |-> sys_path,
                                 path_after |-> r.sys_path,
                                 restores |-> r.restores,
                                 exit |-> r.exit, code |-> r.code,
                                 value |-> r.value])
             /\ IF r.exit = "return"
                THEN /\ classes_list' = classes_list \o r.value
                     /\ idx' = idx + 1
                     /\ UNCHANGED <<pc, exit_code>>
                ELSE /\ pc' = IF r.exit = "typer.Exit" THEN "exit" ELSE "raised"
                     /\ exit_code' = IF r.exit = "typer.Exit" THEN r.code
                                     ELSE exit_code
                     /\ UNCHANGED <<classes_list, idx>>
    /\ UNCHANGED <<source, exclude, module_files, records, g>>
    /\ UNCHANGED callVars

\* the return statement of load_classes_definition:
\* [_get_class_structure(cls, source) for cls in classes_list]
Reflect ==
    /\ pc = "loop"
    /\ idx > Len(module_files)
    /\ IF \E i \in DOMAIN classes_list :
             ReflectRaises(classes_list[i], sys_modules)
       THEN /\ pc' = "raised"
            /\ records' = records
       ELSE /\ pc' = "done"
            /\ records' = [i \in DOMAIN classes_list |->
                             _get_class_structure(classes_list[i], source,
                                                  sys_modules)]
    /\ UNCHANGED <<source, exclude, exit_code, sys_path, sys_modules,
                   module_files, idx, classes_list, calls, g>>
    /\ UNCHANGED callVars

\* records rebuilt from saved metadata instead of a scan
LoadRecords ==
    /\ pc = "init"
    /\ \E saved \in SavedClassLists :
         records' = dict_to_classdef(saved)
    /\ pc' = "loaded"
    /\ UNCHANGED <<source, exclude, exit_code, sys_path, sys_modules,
                   module_files, idx, classes_list, calls, g>>
    /\ UNCHANGED callVars

\* create_diagram(records)
CreateDiagram ==
    /\ pc \in {"done", "loaded"}
    /\ ~g.built
    /\ g' = create_diagram(records)
    /\ UNCHANGED <<source, exclude, pc, exit_code, sys_path, sys_modules,
                   module_files, idx, classes_list, records, calls>>
    /\ UNCHANGED callVars

Next == Start \/ LoadModule \/ Reflect \/ LoadRecords \/ CreateDiagram

Spec == Init /\ [][Next]_vars

\* -------------------------------------------------------------------------
\* blob_to_regex called on its own, its pattern then applied with re.match
\* -------------------------------------------------------------------------

MaxBlobLen == 2
MaxTextLen == 3

BlobAlphabet == {"a", ".", "*", "?", BACKSLASH}
TextAlphabet == {"a", "x", ".", NEWLINE}

FOO_STAR_PY == <<"f", "o", "o", "*", ".", "p", "y">>
FOOBAR_PY == <<"f", "o", "o", "b", "a", "r", ".", "p", "y">>
XFOOBAR_PY == <<"x">> \o FOOBAR_PY

Blobs == SeqsUpTo(BlobAlphabet, MaxBlobLen) \cup {FOO_STAR_PY}
Texts == SeqsUpTo(TextAlphabet, MaxTextLen) \cup {FOOBAR_PY, XFOOBAR_PY}

InitBlob ==
    /\ source = DIR_P
    /\ exclude = <<>>
    /\ PipelineIdle
    /\ fn = "blob_to_regex"
    /\ \E blob \in Blobs, text \in Texts : args = [blob |-> blob, text |-> text]
    /\ result = NoResult

\* pattern = blob_to_regex(blob); re.match(pattern, text)
ApplyBlobToRegex ==
    /\ fn = "blob_to_regex"
    /\ ~result.done
    /\ LET pattern == blob_to_regex(args.blob)
       IN  result' = [done |-> TRUE, pattern |-> pattern,
                      matched |-> re_match(pattern, args.text)]
    /\ UNCHANGED <<fn, args>>
    /\ UNCHANGED pipelineVars

NextBlob == ApplyBlobToRegex

SpecBlob == InitBlob /\ [][NextBlob]_vars

\* -------------------------------------------------------------------------
\* The reflector called on one class
\* -------------------------------------------------------------------------

MaxStmts == 2
MaxEntries == 3

\* the statements a constructor is made of
Stmts ==
    {[node |-> "AnnAssign", target |-> [object |-> "self", attr |-> a],
      annotation |-> an, value |-> v] :
        a \in {<<"x">>, <<"y">>},
        an \in {ANN_INT, ANN_FLOAT, ANN_SUBSCRIPT}, v \in Values}
    \cup {[node |-> "Assign", target |-> [object |-> "self", attr |-> a],
           annotation |-> ANN_NONE, value |-> v] :
        a \in {<<"x">>, <<"y">>}, v \in Values \ {V_NONE}}
    \cup {OTHER_X_INT_5}

Inits ==
    {INIT_ABSENT, INIT_OTHER, INIT_NO_SOURCE}
    \cup {[kind |-> "function", source |-> TRUE, body |-> b] :
             b \in SeqsUpTo(Stmts, MaxStmts)}

\* entries of a class body:
\*   x = 0;  z: int = 3;  def f(self, a: int, b) -> str;  def g(self, a);
\*   def h() -> int (a static method);  def _p(self: int) -> int;
\*   def __r__(self)
D_X == [key |-> <<"x">>, routine |-> FALSE, params |-> <<>>,
        annotations |-> <<>>]
D_Z == [key |-> <<"z">>, routine |-> FALSE, params |-> <<>>,
        annotations |-> <<>>]
M_F == [key |-> <<"f">>, routine |-> TRUE,
        params |-> << <<"s">>, <<"a">>, <<"b">> >>,
        annotations |-> <<[key |-> <<"a">>, value |-> "int"],
                          [key |-> RETURN, value |-> "str"]>>]
M_G == [key |-> <<"g">>, routine |-> TRUE, params |-> << <<"s">>, <<"a">> >>,
        annotations |-> <<>>]
M_H == [key |-> <<"h">>, routine |-> TRUE, params |-> <<>>,
        annotations |-> <<[key |-> RETURN, value |-> "int"]>>]
M_P == [key |-> <<"_", "p">>, routine |-> TRUE, params |-> << <<"s">> >>,
        annotations |-> <<[key |-> <<"s">>, value |-> "int"],
                          [key |-> RETURN, value |-> "int"]>>]
M_R == [key |-> <<"_", "_", "r", "_", "_">>, routine |-> TRUE,
        params |-> << <<"s">> >>, annotations |-> <<>>]

\* class bodies: empty; methods only; an annotated attribute; an attribute
\* without annotation and a method
ClassBodies ==
    {[dict |-> <<>>, annotations |-> <<>>],
     [dict |-> <<M_R, M_F>>, annotations |-> <<>>],
     [dict |-> <<D_Z>>, annotations |-> <<[key |-> <<"z">>, value |-> "int"]>>],
     [dict |-> <<D_X, M_G>>, annotations |-> <<>>]}

\* the classes given to _get_class_structure
Klasses ==
    {[dataclass |-> FALSE, dict |-> b.dict, annotations |-> b.annotations,
      init |-> i] : b \in ClassBodies, i \in Inits}
    \cup {[dataclass |-> TRUE, dict |-> b.dict, annotations |-> b.annotations,
           init |-> INIT_ABSENT] : b \in ClassBodies}

InitReflect ==
    /\ source = DIR_P
    /\ exclude = <<>>
    /\ PipelineIdle
    /\ fn = "_get_class_structure"
    /\ \E klass \in Klasses : args = [klass |-> klass]
    /\ result = NoResult

\* _get_class_structure(klass, root_path) up to the structure of the class;
\* init_attributes is what the call of _get_init_attributes made for a
\* classic class gave
ApplyGetClassStructure ==
    /\ fn = "_get_class_structure"
    /\ ~result.done
    /\ LET class_struct == StructureOf(args.klass)
       IN  result' = [done |-> TRUE,
                      raised |-> class_struct.raised,
                      fields |-> class_struct.fields,
                      methods |-> class_struct.methods,
                      init_attributes |->
                          IF args.klass.dataclass
                          THEN [raised |-> NoneValue, value |-> <<>>]
                          ELSE _get_init_attributes(args.klass)]
    /\ UNCHANGED <<fn, args>>
    /\ UNCHANGED pipelineVars

NextReflect == ApplyGetClassStructure

SpecReflect == InitReflect /\ [][NextReflect]_vars

\* -------------------------------------------------------------------------
\* _get_methods called on one class
\* -------------------------------------------------------------------------

DictEntries == {D_X, M_F, M_G, M_H, M_P, M_R}

\* the class bodies of at most MaxEntries entries, each key once
MethodBodies ==
    {d \in SeqsUpTo(DictEntries, MaxEntries) :
        \A i, j \in DOMAIN d : i # j => d[i].key # d[j].key}

InitMethods ==
    /\ source = DIR_P
    /\ exclude = <<>>
    /\ PipelineIdle
    /\ fn = "_get_methods"
    /\ \E d \in MethodBodies, dc \in BOOLEAN :
          args = [entity |-> [dataclass |-> dc, dict |-> d,
                              annotations |-> <<>>, init |-> INIT_ABSENT]]
    /\ result = NoResult

\* _get_methods(entity)
ApplyGetMethods ==
    /\ fn = "_get_methods"
    /\ ~result.done
    /\ result' = [done |-> TRUE, methods |-> _get_methods(args.entity)]
    /\ UNCHANGED <<fn, args>>
    /\ UNCHANGED pipelineVars

NextMethods == ApplyGetMethods

SpecMethods == InitMethods /\ [][NextMethods]_vars

\* -------------------------------------------------------------------------
\* get_full_class_path called on one class
\* -------------------------------------------------------------------------

\* a directory next to /p whose name starts with the same characters, and a
\* file in it
DIR_PP == <<"/", "p", "p">>
FILE_PPX == <<"/", "p", "p", "/", "x", ".", "p", "y">>

PathClasses == {"A", "E", "K1", "K2", "int"}
PathRoots == {DIR_P, DIR_B, DIR_LIB, DIR_PP, DIR_Z, FILE_N, FILE_M}
PathModuleFiles == {NoFile, FILE_N, FILE_M, FILE_BM, FILE_X, FILE_PPX}

\* the files the module of cls can have been loaded from: a file named
\* after the module, none for a builtin
FilesOf(cls) ==
    {f \in PathModuleFiles :
        IF Classes[cls].module = BUILTINS THEN f = NoFile
        ELSE /\ f # NoFile
             /\ splitext_root(PathParts(f)[Len(PathParts(f))])
                    = Classes[cls].module}

InitPath ==
    /\ source = DIR_P
    /\ exclude = <<>>
    /\ PipelineIdle
    /\ fn = "get_full_class_path"
    /\ \E cls \in PathClasses, root_path \in PathRoots :
          \/ args = [cls |-> cls, root_path |-> root_path,
                     mods |-> InitialSysModules]
          \/ \E f \in FilesOf(cls) :
                args = [cls |-> cls, root_path |-> root_path,
                        mods |-> (Classes[cls].module :> f)
                                 @@ InitialSysModules]
    /\ result = NoResult

\* get_full_class_path(cls, root_path), sys.modules being args.mods
ApplyGetFullClassPath ==
    /\ fn = "get_full_class_path"
    /\ ~result.done
    /\ result' =
          IF ~Importable(args.cls, args.mods)
          THEN [done |-> TRUE, raised |-> "ModuleNotFoundError",
                value |-> <<>>]
          ELSE [done |-> TRUE, raised |-> NoneValue,
                value |-> get_full_class_path(args.cls, args.root_path,
                                              args.mods)]
    /\ UNCHANGED <<fn, args>>
    /\ UNCHANGED pipelineVars

NextPath == ApplyGetFullClassPath

SpecPath == InitPath /\ [][NextPath]_vars

\* -------------------------------------------------------------------------
\* Properties
\* -------------------------------------------------------------------------

\* the load of call c was hit by a KeyboardInterrupt
Interrupted(c) ==
    \/ c.beh.exec = "KeyboardInterrupt"
    \/ c.beh.exec = NoneValue /\ c.beh.late = "KeyboardInterrupt"

\* the load of call c failed at module scope otherwise: an error or an exit
\* raised by the module body, or a failure while collecting its classes
FailedAtModuleScope(c) ==
    \/ c.beh.exec \in {"Exception", "SystemExit"}
    \/ /\ c.beh.exec = NoneValue
       /\ c.beh.late = NoneValue
       /\ ExportedRaises(c.beh.body)

\* the load of call c ran to the end and its classes were collected
Succeeded(c) == ~Interrupted(c) /\ ~FailedAtModuleScope(c)

\* C1: every call of _get_classes_from_module that ends by success, by a
\* caught exception or by a KeyboardInterrupt leaves sys.path as it found it
\* and has executed the restoration exactly once.
C1_PathRestoredExactlyOnce ==
    \A i \in DOMAIN calls :
        (calls[i].beh.exec # "SystemExit") =>
            /\ calls[i].path_after = calls[i].path_before
            /\ calls[i].restores = 1

\* C2: a file that fails at module scope (error or exit raised by the module
\* body, failure while collecting) makes _get_classes_from_module return an
\* empty list, and the scan goes on with the remaining files.
C2_FailureNeverPropagates ==
    \A i \in DOMAIN calls :
        FailedAtModuleScope(calls[i]) =>
            /\ calls[i].exit = "return"
            /\ calls[i].value = <<>>
            /\ idx > i

\* C3: a KeyboardInterrupt during a load leaves _get_classes_from_module as
\* typer.Exit(1); load_classes_definition then loads no further file and
\* returns no records.
C3_InterruptIsFatal ==
    \A i \in DOMAIN calls :
        Interrupted(calls[i]) =>
            /\ calls[i].exit = "typer.Exit"
            /\ calls[i].code = 1
            /\ i = Len(calls)
            /\ pc = "exit"
            /\ exit_code = 1
            /\ records = <<>>
            /\ ~g.built

C3_Witness ==
    /\ pc = "exit"
    /\ Len(calls) = 2
    /\ Len(module_files) = 3
    /\ Interrupted(calls[2])
    /\ classes_list # <<>>

InheritancePairs(recs) ==
    UNION {{<<recs[i].bases[j], recs[i].name>> : j \in DOMAIN recs[i].bases} :
             i \in DOMAIN recs}

\* C5: the edges create_diagram hands to the renderer are exactly the
\* distinct pairs (base, record name), each directed from the base to the
\* inheriting class and each handed once.
C5_EdgesAreDistinctPairs ==
    g.built =>
        /\ BagToSet(g.edges) = InheritancePairs(records)
        /\ \A e \in InheritancePairs(records) : CopiesIn(e, g.edges) = 1

C5_Witness ==
    /\ g.built
    /\ Len(records) = 2
    /\ records[1] = records[2]
    /\ Len(records[1].bases) = 2
    /\ records[1].bases[1] = records[1].bases[2]
    /\ records[1].bases[1] # records[1].name

\* C6: no two records returned by one load_classes_definition call have the
\* same name.
C6_RecordNamesUnique ==
    pc = "done" =>
        \A i, j \in DOMAIN records :
            i # j => records[i].name # records[j].name

\* the names of a list of records
RecordNames(recs) == {recs[i].name : i \in DOMAIN recs}

\* C7: create_diagram emits one node per record, keyed by the record's name,
\* and none for a base that is no record's name; such a base is still the
\* source of an edge.
C7_OneNodePerRecord ==
    g.built =>
        /\ Len(g.nodes) = Len(records)
        /\ \A i \in DOMAIN records : g.nodes[i] = records[i].name
        /\ \A i \in DOMAIN records : \A j \in DOMAIN records[i].bases :
              records[i].bases[j] \notin RecordNames(records) =>
                  /\ records[i].bases[j] \notin Range(g.nodes)
                  /\ BagIn(<<records[i].bases[j], records[i].name>>, g.edges)

C7_Witness ==
    /\ g.built
    /\ pc = "done"
    /\ \E i \in DOMAIN records : \E j \in DOMAIN records[i].bases :
          records[i].bases[j] \notin RecordNames(records)

\* C8: the bases of a reflected record hold neither the record's own name
\* nor the name of the root type object.
C8_BasesExcludeSelfAndObject ==
    pc = "done" =>
        \A i \in DOMAIN records :
            /\ records[i].name \notin Range(records[i].bases)
            /\ _get_fullname("object") \notin Range(records[i].bases)

\* the class objects a module body defines in its own module, and those its
\* __all__ names
DefinedIn(body, module_name) ==
    {body.ns[k].obj : k \in {n \in DOMAIN body.ns :
                                /\ isclass(body.ns[n].obj)
                                /\ Classes[body.ns[n].obj].module = module_name}}
ExportedBy(body) ==
    IF body.all = NoAll THEN {}
    ELSE {GetAttr(body.ns, body.all[k]) : k \in DOMAIN body.all} \cap ClassIds

\* the __name__ of the module a call loads
ModuleNameOf(c) == _extract_module_name(c.file)[2]

\* C9: on a successful load the returned list is the union, without
\* duplicates, of the classes defined in the module and those named in its
\* __all__.
C9_UnionWithoutDuplicates ==
    \A i \in DOMAIN calls :
        Succeeded(calls[i]) =>
            /\ Range(calls[i].value) =
                   DefinedIn(calls[i].beh.body, ModuleNameOf(calls[i]))
                   \cup ExportedBy(calls[i].beh.body)
            /\ \A m, n \in DOMAIN calls[i].value :
                  m # n => calls[i].value[m] # calls[i].value[n]

C12_OnlySourceFilesOutsideCache ==
    isdir(source) =>
        /\ \A i \in DOMAIN module_files :
              /\ EndsWith(module_files[i], PY)
              /\ ~Contains(module_files[i], PYCACHE)
        /\ \A i \in DOMAIN calls :
              /\ EndsWith(calls[i].file, PY)
              /\ ~Contains(calls[i].file, PYCACHE)

C12_Witness ==
    /\ isdir(source)
    /\ exclude = <<>>
    /\ Len(calls) = 3
    /\ FILE_CACHED \in Range(glob(source))

RECURSIVE GlobMatches(_, _)
\* the whole of text matches the glob: '*' stands for any run of
\* characters, '?' for one character, every other character for itself
GlobMatches(pattern, text) ==
    IF pattern = <<>> THEN text = <<>>
    ELSE IF Head(pattern) = "*"
         THEN \/ GlobMatches(Tail(pattern), text)
              \/ text # <<>> /\ GlobMatches(pattern, Tail(text))
    ELSE IF Head(pattern) = "?"
         THEN text # <<>> /\ GlobMatches(Tail(pattern), Tail(text))
    ELSE text # <<>> /\ Head(text) = Head(pattern)
                    /\ GlobMatches(Tail(pattern), Tail(text))

\* the pattern starts with '^' and ends with '$'
Anchored(pattern) ==
    /\ Len(pattern) >= 2
    /\ Head(pattern) = "^"
    /\ pattern[Len(pattern)] = "$"

\* C14 as stated: the pattern blob_to_regex returns is anchored at both ends
\* and matches a string exactly when the whole string matches the glob.
C14_MatchesExactlyTheGlob ==
    (fn = "blob_to_regex" /\ result.done) =>
        /\ Anchored(result.pattern)
        /\ result.matched <=> GlobMatches(args.blob, args.text)

\* C14: the pattern blob_to_regex returns is anchored at both ends and, for
\* every string without a newline character, matches it exactly when the
\* whole string matches the glob.
C14_MatchesExactlyTheGlobOnOneLine ==
    (fn = "blob_to_regex" /\ result.done /\ NEWLINE \notin Range(args.text)) =>
        /\ Anchored(result.pattern)
        /\ result.matched <=> GlobMatches(args.blob, args.text)

C14_Witness ==
    /\ fn = "blob_to_regex" /\ result.done
    /\ args.blob = FOO_STAR_PY /\ args.text = FOOBAR_PY
    /\ result.matched

\* the patterns the caller supplied: the exclusion list without the
\* '__pycache__' the code appends to it
SuppliedPatterns ==
    SubSeq(ExcludePattern(exclude), 1, Len(ExcludePattern(exclude)) - 1)

\* C11: for a directory root, no path enumerated for the module loader
\* matches a supplied exclusion pattern, the pattern being read as a glob
\* translated to an anchored regular expression and matched against the path.
C11_GlobExclusionsApplied ==
    (isdir(source) /\ pc # "init") =>
        \A i \in DOMAIN module_files : \A j \in DOMAIN SuppliedPatterns :
            ~re_match(blob_to_regex(SuppliedPatterns[j]), module_files[i])

\* the items of a dict, as a set of pairs
DictItems(d) == {<<d[i].key, d[i].value>> : i \in DOMAIN d}

\* a classic class with a constructor whose source was read, reflected
\* without an exception
ConstructorRead ==
    /\ fn = "_get_class_structure" /\ result.done
    /\ ~args.klass.dataclass
    /\ args.klass.init.kind = "function" /\ args.klass.init.source
    /\ result.raised = NoneValue

\* C15: every assignment to a self attribute in the constructor of a classic
\* class, annotated or not, contributes a field, an unannotated one getting
\* the runtime type of its literal; with an empty class body the
\* constructor `self.x: int = 5; self.y = "a"` gives {x: int, y: str}.
C15_EverySelfAssignmentIsAField ==
    ConstructorRead =>
        LET body == args.klass.init.body
        IN  /\ \A i \in DOMAIN body :
                  body[i].target.object = "self" =>
                      body[i].target.attr \in DictKeys(result.fields)
            /\ (body = <<SELF_X_INT_5, SELF_Y_A>> /\ args.klass.dict = <<>>) =>
                  DictItems(result.fields) = {<< <<"x">>, INT >>,
                                              << <<"y">>, STR >>}

\* C16: reflecting a classic class never raises because of its constructor:
\* neither _get_init_attributes nor _get_class_structure raises when the
\* source cannot be retrieved or an annotated self assignment has an
\* annotation or a value of a shape the extractor does not handle.
C16_ConstructorNeverMakesReflectionRaise ==
    (fn = "_get_class_structure" /\ result.done /\ ~args.klass.dataclass) =>
        /\ result.init_attributes.raised = NoneValue
        /\ result.raised = NoneValue

\* C17: for a classic class whose constructor yields attributes, these are
\* in the record's fields if and only if the class-body pass yielded no
\* field at all.
C17_ConstructorOnlyAsFallback ==
    (ConstructorRead /\ result.init_attributes.value # <<>>) =>
        ((DictItems(result.init_attributes.value) \subseteq
              DictItems(result.fields))
         <=> BodyFields(args.klass) = <<>>)

\* C18: an annotated self assignment whose annotation is a type name is
\* recorded with that name, whatever value is assigned (the last such
\* assignment to an attribute decides).
C18_ExplicitAnnotationWins ==
    ConstructorRead =>
        LET body == args.klass.init.body
            Annotated(i) == /\ body[i].node = "AnnAssign"
                            /\ body[i].target.object = "self"
        IN  /\ body = <<SELF_X_FLOAT_5>> =>
                  DictItems(result.init_attributes.value) =
                      {<< <<"x">>, FLOAT >>}
            /\ \A i \in DOMAIN body :
                  (/\ Annotated(i)
                   /\ body[i].annotation.node = "Name"
                   /\ \A j \in DOMAIN body :
                         (j > i /\ Annotated(j)) =>
                             body[j].target.attr # body[i].target.attr)
                  => DictGet(result.init_attributes.value,
                             body[i].target.attr, <<>>)
                         = body[i].annotation.id

\* C19: the methods map has exactly one entry per routine of the class body
\* whose name does not start with a double underscore, and each entry maps
\* every parameter and 'return' to a type name: the full name of its
\* annotation, or 'Any' when it has none.
C19_OneEntryPerMethodEveryParameterTyped ==
    (fn = "_get_methods" /\ result.done) =>
        LET d == args.entity.dict
            methods == result.methods
        IN  /\ DictKeys(methods) =
                  {d[i].key : i \in {j \in DOMAIN d :
                       d[j].routine /\ ~StartsWith(d[j].key, DUNDER)}}
            /\ \A i, j \in DOMAIN methods :
                  methods[i].key = methods[j].key => i = j
            /\ \A i \in DOMAIN d :
                  d[i].key \in DictKeys(methods) =>
                    LET m == DictGet(methods, d[i].key, <<>>)
                    IN  \A p \in Range(d[i].params) \cup {RETURN} :
                          /\ p \in DictKeys(m)
                          /\ DictGet(m, p, <<>>) =
                               IF p \in DictKeys(d[i].annotations)
                               THEN _get_fullname(
                                        DictGet(d[i].annotations, p, "object"))
                               ELSE ANY

\* the file lies beneath the directory root: the components of root are the
\* first components of file, which has more
Beneath(file, root) ==
    LET f == PathParts(file)
        r == PathParts(root)
    IN  Len(f) > Len(r) /\ SubSeq(f, 1, Len(r)) = r

\* the path of file relative to root without extension, its components
\* joined with dots, then a dot and the qualified local name of cls
PathRelativeName(cls, file, root) ==
    LET f == PathParts(file)
        rel == SubSeq(f, Len(PathParts(root)) + 1, Len(f))
        parts == SubSeq(rel, 1, Len(rel) - 1)
                 \o <<splitext_root(rel[Len(rel)])>>
    IN  Join(parts, ".") \o <<".">> \o Classes[cls].qualname

\* C20: get_full_class_path returns the path-relative dotted name exactly
\* when the declaring file of the class lies beneath root, and module + '.'
\* + qualname when the file is not beneath root or is unknown, a file in a
\* sibling directory whose path starts with the characters of root included.
C20_RelativeNameExactlyBeneathRoot ==
    (fn = "get_full_class_path" /\ result.done /\ result.raised = NoneValue) =>
        LET file == args.mods[Classes[args.cls].module]
        IN  IF file # NoFile /\ Beneath(file, args.root_path)
            THEN result.value = PathRelativeName(args.cls, file,
                                                 args.root_path)
            ELSE result.value = _get_fullname(args.cls)

RECURSIVE ValuesInOrder(_)
\* what the calls of _get_classes_from_module returned, one after the other
ValuesInOrder(cs) ==
    IF cs = <<>> THEN <<>> ELSE Head(cs).value \o ValuesInOrder(Tail(cs))

\* an exception left the reflection phase of the scan
ReflectionRaised == pc = "raised" /\ idx > Len(module_files)

\* C21: the scan works in two phases. Files are loaded one at a time in the
\* order the enumeration gave them and the classes are collected in that
\* order; no record exists before every file has been loaded; the records
\* returned are the reflections of the collected classes in that order; and
\* when reflecting one class raises, the scan ends with the exception and
\* without any record.
C21_TwoPhasesInFileOrder ==
    pc \in {"loop", "done", "raised", "exit"} =>
        /\ Len(calls) <= Len(module_files)
        /\ \A i \in DOMAIN calls : calls[i].file = module_files[i]
        /\ classes_list = ValuesInOrder(calls)
        /\ Len(calls) < Len(module_files) =>
              (records = <<>> /\ pc # "done" /\ ~ReflectionRaised)
        /\ pc = "done" =>
              /\ \A k \in DOMAIN classes_list :
                    StructureOf(ClassCode(classes_list[k])).raised = NoneValue
              /\ records = [k \in DOMAIN classes_list |->
                               _get_class_structure(classes_list[k], source,
                                                    sys_modules)]
        /\ (\E k \in DOMAIN classes_list :
               StructureOf(ClassCode(classes_list[k])).raised # NoneValue) =>
              (records = <<>> /\ pc # "done")

C21_Witness ==
    /\ ReflectionRaised
    /\ Len(calls) = 3
    /\ Len(classes_list) >= 3
    /\ classes_list[Len(classes_list)] = "D"
    /\ records = <<>>

\* sys.path as load_classes_definition found it
PathBeforeCall == InitialSysPath

\* C22: when load_classes_definition has returned normally, sys.path is its
\* value before the call for a single-file root, and that value with the
\* root directory inserted at the front for a directory root.
C22_PathAfterNormalReturn ==
    pc = "done" =>
        sys_path = IF isdir(source) THEN <<source>> \o PathBeforeCall
                   ELSE PathBeforeCall

C22_Witness ==
    /\ pc = "done" /\ isdir(source) /\ Len(calls) = 3
    /\ sys_path = <<source>> \o PathBeforeCall
    /\ \E i \in DOMAIN calls :
          calls[i].beh.touch /\ calls[i].beh.exec = NoneValue
    /\ \E i \in DOMAIN calls :
          calls[i].beh.touch /\ calls[i].beh.exec = "Exception"

====
